---- MODULE Spec2Model ----
(***************************************************************************)
(* A model of plexpy/api2.py (class API2): the v2 API of PlexPy.           *)
(*                                                                         *)
(* One request is one API2 instance running _api_run on a parameter bag:   *)
(*   _api_validate -> handler call -> result normalisation ->              *)
(*   classification -> _api_responds -> _api_out_as.                       *)
(* Process-wide state is plexpy.CONFIG (API_ENABLED, API_KEY,              *)
(* HTTP_USERNAME, HTTP_PASSWORD), plexpy.SIGNAL and what CONFIG.write()    *)
(* has persisted.                                                          *)
(*                                                                         *)
(* Python values are tagged records: None, Bool(b), Num(n), Str(s),        *)
(* Dict(ks, vs), List(vs) and Bytes(n), a str whose bytes are not text.    *)
(***************************************************************************)
EXTENDS Integers, Sequences, FiniteSets, TLC

VARIABLES
    CONFIG,     \* plexpy.CONFIG: the configuration values api2.py reads
    plexpy,     \* attributes of the plexpy module itself: SIGNAL, HTTP_USERNAME
    written,    \* the API keys persisted by CONFIG.write(), in order
    pc,         \* per request thread: where it is inside _api_run
    kwargs,     \* per thread: the raw parameter bag _api_run was called with
    api,        \* per thread: the attributes of its API2 instance
    result,     \* per thread: the local variable result of _api_run
    called,     \* per thread: the handler call made, None if none was made
    apikey,     \* per thread: the local variable apikey of get_apikey
    response    \* per thread: what _api_run returned and the content type set

vars == <<CONFIG, plexpy, written, pc, kwargs, api, result, called, apikey, response>>

----------------------------------------------------------------------------
(* Bounds of the model *)

\* concurrent request threads of the serving host
NumThreads == 2
\* distinct values random.getrandbits can lead to in one run
NumGenKeys == 2

Threads == 1..NumThreads

----------------------------------------------------------------------------
(* Python values *)

None == [t |-> "None"]
Bool(b) == [t |-> "bool", b |-> b]
Str(s) == [t |-> "str", s |-> s]
Dict(ks, vs) == [t |-> "dict", ks |-> ks, vs |-> vs]
List(vs) == [t |-> "list", vs |-> vs]
Num(n) == [t |-> "int", n |-> n]
\* a str holding bytes that decode neither as ASCII nor as UTF-8: json.dumps
\* and unicode() raise UnicodeDecodeError on it, no parser accepts it
Bytes(n) == [t |-> "bytes", n |-> n]
\* an attribute that was never assigned: reading it raises AttributeError
Unset == [t |-> "unset"]

\* Python truth value: None, False, '', {} and [] are false
Truthy(v) ==
    CASE v.t = "None" -> FALSE
      [] v.t = "bool" -> v.b
      [] v.t = "int" -> v.n # 0
      [] v.t = "str" -> v.s # ""
      [] v.t = "dict" -> v.ks # <<>>
      [] v.t = "list" -> v.vs # <<>>
      [] OTHER -> TRUE

\* a keyword-argument mapping as a value (kwargs of a call, _api_kwargs)
Kw(bag) == [t |-> "kwargs", bag |-> bag]

\* d.pop(key, default): the value removed, and the mapping left
PopValue(bag, key, default) == IF key \in DOMAIN bag THEN bag[key] ELSE default
PopRest(bag, key) == [k \in (DOMAIN bag) \ {key} |-> bag[k]]

RECURSIVE PopAll(_, _)
PopAll(bag, keys) ==
    IF keys = <<>> THEN bag ELSE PopAll(PopRest(bag, Head(keys)), Tail(keys))

RECURSIVE Join(_, _)
\* sep.join(names)
Join(names, sep) ==
    IF names = <<>> THEN ""
    ELSE IF Len(names) = 1 THEN names[1]
    ELSE names[1] \o sep \o Join(Tail(names), sep)

SeqToSet(s) == {s[i] : i \in DOMAIN s}

----------------------------------------------------------------------------
(* The command registry: _api_docs().keys() *)

\* the public methods of API2 (names starting with neither '_' nor '_api'),
\* in the order inspect.getmembers lists them
_api_valid_methods ==
    << "backup_config", "backup_db", "docs", "docs_md", "get_apikey",
       "get_logs", "get_settings", "refresh_libraries_list",
       "refresh_users_list", "restart", "sql", "update" >>

ValidMethods == SeqToSet(_api_valid_methods)

\* the commands _api_validate lets through without a key
PublicCommands == {"get_apikey", "docs", "docs_md"}

\* the keys _api_validate pops, in the order it pops them
ReservedKeys == <<"callback", "apikey", "cmd", "debug", "profileme", "out_type">>

\* the length _api_validate demands of the configured key
ApiKeyLen == 32

----------------------------------------------------------------------------
(* API2.__init__ *)

\* the classification starting as 'success'
NewInstanceMut ==
    [ _api_authenticated |-> FALSE,
      _api_out_type      |-> Str("json"),
      _api_msg           |-> None,
      _api_debug         |-> None,
      _api_cmd           |-> None,
      _api_apikey        |-> None,
      _api_callback      |-> None,
      _api_result_type   |-> "success",
      _api_profileme     |-> None,
      _api_kwargs        |-> None,
      msg                |-> Unset,
      result_type        |-> Unset,
      data               |-> Unset ]

NewInstance ==
    [ _api_authenticated |-> FALSE,
      _api_out_type      |-> Str("json"),
      _api_msg           |-> None,
      _api_debug         |-> None,
      _api_cmd           |-> None,
      _api_apikey        |-> None,
      _api_callback      |-> None,
      _api_result_type   |-> "failed",
      _api_profileme     |-> None,
      _api_kwargs        |-> None,
      \* attributes __init__ does not create; handlers assign them
      msg                |-> Unset,
      result_type        |-> Unset,
      data               |-> Unset ]

----------------------------------------------------------------------------
(* API2._api_validate *)

\* the apikey test run before the test for its presence
RejectionMsgMut(bag, cfg) ==
    IF ~cfg.API_ENABLED THEN Str("API not enabled")
    ELSE IF cfg.API_KEY = "" THEN Str("API key not generated")
    ELSE IF Len(cfg.API_KEY) # ApiKeyLen THEN Str("API key not generated correctly")
    ELSE IF PopValue(bag, "apikey", Str("")) # Str(cfg.API_KEY) THEN Str("Invalid apikey")
    ELSE IF "cmd" \notin DOMAIN bag THEN Str("Parameter cmd is required")
    ELSE None

\* the length of the configured key tested before its presence
RejectionMsgSwapped(bag, cfg) ==
    IF ~cfg.API_ENABLED THEN Str("API not enabled")
    ELSE IF Len(cfg.API_KEY) # ApiKeyLen THEN Str("API key not generated correctly")
    ELSE IF cfg.API_KEY = "" THEN Str("API key not generated")
    ELSE IF "apikey" \notin DOMAIN bag THEN Str("Parameter apikey is required")
    ELSE IF bag["apikey"] # Str(cfg.API_KEY) THEN Str("Invalid apikey")
    ELSE IF "cmd" \notin DOMAIN bag
        THEN Str("Parameter cmd is required. Possible commands are: "
                 \o Join(_api_valid_methods, ", "))
    ELSE IF bag["cmd"].s \notin ValidMethods
        THEN Str("Unknown command: " \o bag["cmd"].s
                 \o ". Possible commands are: " \o Join(_api_valid_methods, ", "))
    ELSE None

\* lines 79-98: the rejection message, first matching condition wins
RejectionMsg(bag, cfg) ==
    IF ~cfg.API_ENABLED THEN Str("API not enabled")
    ELSE IF cfg.API_KEY = "" THEN Str("API key not generated")
    ELSE IF Len(cfg.API_KEY) # ApiKeyLen THEN Str("API key not generated correctly")
    ELSE IF "apikey" \notin DOMAIN bag THEN Str("Parameter apikey is required")
    ELSE IF bag["apikey"] # Str(cfg.API_KEY) THEN Str("Invalid apikey")
    ELSE IF "cmd" \notin DOMAIN bag
        THEN Str("Parameter cmd is required. Possible commands are: "
                 \o Join(_api_valid_methods, ", "))
    ELSE IF bag["cmd"].s \notin ValidMethods
        THEN Str("Unknown command: " \o bag["cmd"].s
                 \o ". Possible commands are: " \o Join(_api_valid_methods, ", "))
    ELSE None

\* is a popped cmd value one of names
CmdIn(cmd, names) == cmd.t = "str" /\ cmd.s \in names

\* lines 108 and 112: the two conditions under which the request is let in
KeyAuthenticated(key, cmd, cfg) ==
    key = Str(cfg.API_KEY) /\ cfg.API_ENABLED /\ CmdIn(cmd, ValidMethods)

\* the public commands let in even while the API is disabled
PublicAuthenticatedMut(cmd, cfg) == CmdIn(cmd, PublicCommands)

PublicAuthenticated(cmd, cfg) ==
    CmdIn(cmd, PublicCommands) /\ cfg.API_ENABLED

\* profileme left in the bag
CleanedKwargsMut(bag) == PopAll(bag, <<"callback", "apikey", "cmd", "debug", "out_type">>)

\* lines 100-106: the bag once the reserved keys are popped
CleanedKwargs(bag) == PopAll(bag, ReservedKeys)

\* the message of a public command let in without the key not cleared
ValidatedMut(self, bag, cfg) ==
    LET popped ==
            [self EXCEPT
                !._api_msg       = LET m == RejectionMsg(bag, cfg)
                                   IN IF m = None THEN self._api_msg ELSE m,
                !._api_callback  = PopValue(bag, "callback", None),
                !._api_apikey    = PopValue(bag, "apikey", None),
                !._api_cmd       = PopValue(bag, "cmd", None),
                !._api_debug     = PopValue(bag, "debug", Bool(FALSE)),
                !._api_profileme = PopValue(bag, "profileme", None),
                !._api_out_type  = PopValue(bag, "out_type", Str("json"))]
    IN  IF KeyAuthenticated(popped._api_apikey, popped._api_cmd, cfg)
        THEN [popped EXCEPT !._api_authenticated = TRUE,
                            !._api_msg = None,
                            !._api_kwargs = Kw(CleanedKwargs(bag))]
        ELSE IF PublicAuthenticated(popped._api_cmd, cfg)
        THEN [popped EXCEPT !._api_authenticated = TRUE,
                            !._api_kwargs = Kw(CleanedKwargs(bag))]
        ELSE popped

\* the instance after _api_validate on bag
Validated(self, bag, cfg) ==
    LET popped ==
            [self EXCEPT
                !._api_msg       = LET m == RejectionMsg(bag, cfg)
                                   IN IF m = None THEN self._api_msg ELSE m,
                !._api_callback  = PopValue(bag, "callback", None),
                !._api_apikey    = PopValue(bag, "apikey", None),
                !._api_cmd       = PopValue(bag, "cmd", None),
                !._api_debug     = PopValue(bag, "debug", Bool(FALSE)),
                !._api_profileme = PopValue(bag, "profileme", None),
                !._api_out_type  = PopValue(bag, "out_type", Str("json"))]
    IN  IF \/ KeyAuthenticated(popped._api_apikey, popped._api_cmd, cfg)
           \/ PublicAuthenticated(popped._api_cmd, cfg)
        THEN [popped EXCEPT !._api_authenticated = TRUE,
                            !._api_msg = None,
                            !._api_kwargs = Kw(CleanedKwargs(bag))]
        ELSE popped

----------------------------------------------------------------------------
(* json.dumps, json.loads, xmltodict.unparse, xmltodict.parse             *)
(* The strings of the model hold no character that either format escapes. *)

\* every mapping key the model uses, in the order sorted() gives
SortedKeys ==
    << "General", "a", "backup_config", "backup_db", "data", "docs", "docs_md",
       "get_apikey", "get_logs", "get_settings", "message", "msg",
       "refresh_libraries_list", "refresh_users_list", "response", "restart",
       "result", "sql", "update" >>

\* the positions of a mapping's items when its keys are sorted
SortedIndex(ks) ==
    LET pos(k) == CHOOSE i \in DOMAIN SortedKeys : SortedKeys[i] = k
        Rank(i) == Cardinality({j \in DOMAIN ks : pos(ks[j]) < pos(ks[i])}) + 1
    IN  [r \in DOMAIN ks |-> CHOOSE i \in DOMAIN ks : Rank(i) = r]

SortDict(d) ==
    LET ix == SortedIndex(d.ks)
    IN  Dict([r \in DOMAIN d.ks |-> d.ks[ix[r]]], [r \in DOMAIN d.ks |-> d.vs[ix[r]]])

Digit(n) == SubSeq("0123456789", n + 1, n + 1)

RECURSIVE IntToStr(_)
IntToStr(n) == IF n < 10 THEN Digit(n) ELSE IntToStr(n \div 10) \o Digit(n % 10)

RECURSIVE Repeat(_, _)
Repeat(s, n) == IF n = 0 THEN "" ELSE s \o Repeat(s, n - 1)

RECURSIVE JsonSerializable(_)
\* json.dumps raises on a value it cannot encode, at any depth
JsonSerializable(v) ==
    CASE v.t \in {"None", "bool", "int", "str"} -> TRUE
      [] v.t \in {"dict", "list"} -> \A i \in DOMAIN v.vs : JsonSerializable(v.vs[i])
      [] OTHER -> FALSE

RECURSIVE JsonEncode(_, _, _)
\* json.dumps(v) when pretty is FALSE, json.dumps(v, indent=4, sort_keys=True)
\* otherwise (Python 2 keeps the ', ' item separator before each newline)
JsonEncode(v, pretty, level) ==
    LET nl(l) == IF pretty THEN "\n" \o Repeat("    ", l) ELSE ""
        RECURSIVE Items(_, _, _)
        Items(ks, vs, i) ==
            IF i > Len(vs) THEN ""
            ELSE (IF i > 1 THEN ", " ELSE "") \o nl(level + 1)
                 \o (IF ks = <<>> THEN "" ELSE "\"" \o ks[i] \o "\": ")
                 \o JsonEncode(vs[i], pretty, level + 1)
                 \o Items(ks, vs, i + 1)
    IN  CASE v.t = "None" -> "null"
          [] v.t = "bool" -> IF v.b THEN "true" ELSE "false"
          [] v.t = "int" -> IntToStr(v.n)
          [] v.t = "str" -> "\"" \o v.s \o "\""
          [] v.t = "dict" ->
                IF v.ks = <<>> THEN "{}"
                ELSE LET d == IF pretty THEN SortDict(v) ELSE v
                     IN  "{" \o Items(d.ks, d.vs, 1) \o nl(level) \o "}"
          [] v.t = "list" ->
                IF v.vs = <<>> THEN "[]"
                ELSE "[" \o Items(<<>>, v.vs, 1) \o nl(level) \o "]"

JsonDumps(v) == JsonEncode(v, FALSE, 0)
JsonDumpsPretty(v) == JsonEncode(v, TRUE, 0)

\* the structures whose JSON text a handler of the model can return
JsonUniverse ==
    { Dict(<<"a">>, <<Num(1)>>), Dict(<<>>, <<>>), List(<<>>), List(<<Num(1)>>), None,
      Str("[]") }

\* json.loads accepts only a str that is JSON text
JsonParses(v) == v.t = "str" /\ \E u \in JsonUniverse : JsonDumps(u) = v.s
JsonLoads(v) == CHOOSE u \in JsonUniverse : JsonDumps(u) = v.s

RECURSIVE XmlSerializable(_)
\* xmltodict turns every leaf into text with unicode(), which raises on Bytes
XmlSerializable(v) ==
    CASE v.t \in {"dict", "list"} -> \A i \in DOMAIN v.vs : XmlSerializable(v.vs[i])
      [] v.t = "bytes" -> FALSE
      [] OTHER -> TRUE

\* unicode(v) of a leaf
XmlText(v) ==
    CASE v.t = "None" -> ""
      [] v.t = "bool" -> IF v.b THEN "True" ELSE "False"
      [] v.t = "int" -> IntToStr(v.n)
      [] v.t = "str" -> v.s

RECURSIVE XmlEmit(_, _, _)
\* xmltodict._emit(key, value, depth) with pretty=True
XmlEmit(key, value, depth) ==
    LET RECURSIVE Each(_, _)
        Each(vs, i) ==
            IF i > Len(vs) THEN ""
            ELSE LET v == vs[i]
                     kids == IF v.t = "dict" THEN v ELSE Dict(<<>>, <<>>)
                     RECURSIVE Kids(_)
                     Kids(j) == IF j > Len(kids.ks) THEN ""
                                ELSE XmlEmit(kids.ks[j], kids.vs[j], depth + 1) \o Kids(j + 1)
                 IN  Repeat("\t", depth) \o "<" \o key \o ">"
                     \o (IF kids.ks # <<>> THEN "\n" ELSE "")
                     \o Kids(1)
                     \o (IF v.t = "dict" THEN "" ELSE XmlText(v))
                     \o (IF kids.ks # <<>> THEN Repeat("\t", depth) ELSE "")
                     \o "</" \o key \o ">"
                     \o (IF depth > 0 THEN "\n" ELSE "")
                     \o Each(vs, i + 1)
    IN  Each(IF value.t = "list" THEN value.vs ELSE <<value>>, 1)

XmlHeader == "<?xml version=\"1.0\" encoding=\"utf-8\"?>\n"

\* xmltodict.unparse(d, pretty=True) raises unless d has exactly one root,
\* the root is one element, and every leaf converts to text
XmlUnparseOk(d) ==
    /\ Len(d.ks) = 1
    /\ d.vs[1].t = "list" => Len(d.vs[1].vs) <= 1
    /\ XmlSerializable(d)

XmlUnparse(d) == XmlHeader \o XmlEmit(d.ks[1], d.vs[1], 0)

\* the XML texts a handler of the model can return, with what
\* xmltodict.parse(text, attr_prefix='') makes of them
XmlUniverse == { <<"<a>1</a>", Dict(<<"a">>, <<Str("1")>>)>> }

XmlParses(v) == v.t = "str" /\ \E e \in XmlUniverse : e[1] = v.s
XmlParse(v) == (CHOOSE e \in XmlUniverse : e[1] = v.s)[2]

----------------------------------------------------------------------------
(* The handlers *)

\* line 432
AuthMsg == "Authentication is enabled, please add the correct username and password to the parameters"

\* the named parameters a handler declares; AnyKey stands for a **kwargs
AnyKey == "**"
Signature(cmd) ==
    CASE cmd = "get_logs" -> {AnyKey}
      [] cmd = "get_settings" -> {"key"}
      [] cmd = "sql" -> {"query"}
      [] cmd = "get_apikey" -> {"username", "password"}
      [] cmd \in {"restart", "update", "refresh_libraries_list", "refresh_users_list"}
            -> {AnyKey}
      [] OTHER -> {}

\* call(**kw) raises TypeError before the body runs if kw names a parameter
\* the handler does not declare
AcceptsKwargs(cmd, kw) ==
    AnyKey \in Signature(cmd) \/ DOMAIN kw \subseteq Signature(cmd)

\* docs(): every command with its whitespace-collapsed docstring
DocsValue ==
    Dict(_api_valid_methods, [i \in DOMAIN _api_valid_methods |-> Str("doc")])

\* docs_md(): '<pre>' + the markdown page + '</pre>'; the page holds the text
\* "?apikey=$apikey&cmd=$command", so it is neither JSON nor well-formed XML
DocsMdValue == Str("<pre># API Reference ... &cmd=$command ... </pre>")

\* what the collaborators outside api2.py (config.make_backup,
\* database.make_backup, pmsconnect.refresh_libraries, plextv.refresh_users)
\* can hand back to the handler that calls them
ExternalReturns ==
    { Bool(TRUE), Bool(FALSE), Str("{\"a\": 1}"), Str("null"), Str("\"[]\""),
      Str("<a>1</a>"), Bytes("log") }

\* an outcome of running a handler body: it raised, or it returned ret after
\* assigning the attributes in set (and the signal in signal, "" for none)
Raised == [raised |-> TRUE]
Returned(ret, set, signal) == [raised |-> FALSE, ret |-> ret, set |-> set, signal |-> signal]

NoAttrs == [k \in {} |-> None]

\* lines 298-320, 336-356: data = collaborator(); result_type by its truth;
\* return data
BackupOutcomes ==
    {Raised} \cup
    { Returned(d, [k \in {"result_type"} |->
                      IF Truthy(d) THEN Str("success") ELSE Str("failed")], "")
        : d \in ExternalReturns }

\* lines 322-334: restart and update
SignalOutcome(signal, text) ==
    Returned(None, [k \in {"msg", "result_type"} |->
                       IF k = "msg" THEN Str(text) ELSE Str("success")], signal)

\* the outcomes of call(**kw) for every command but get_apikey
HandlerOutcomes(cmd, kw) ==
    IF ~AcceptsKwargs(cmd, kw) THEN {Raised}
    ELSE CASE cmd = "docs" -> {Returned(DocsValue, NoAttrs, "")}
           [] cmd = "docs_md" -> {Returned(DocsMdValue, NoAttrs, "")}
           [] cmd = "restart" -> {SignalOutcome("restart", "Restarting plexpy")}
           [] cmd = "update" -> {SignalOutcome("update", "Updating plexpy")}
           [] cmd \in {"backup_config", "backup_db", "refresh_libraries_list",
                       "refresh_users_list"} -> BackupOutcomes
           \* lines 280-281: without a query sql returns nothing
           [] cmd = "sql" ->
                IF "query" \notin DOMAIN kw \/ ~Truthy(kw["query"])
                THEN {Returned(None, NoAttrs, "")}
                ELSE {Raised} \cup
                     {Returned(List(<<>>), [k \in {"data"} |-> List(<<>>)], "")}
           \* lines 151-217: the parsed log lines, or a fault reading the file
           [] cmd = "get_logs" ->
                {Raised} \cup
                { Returned(l, [k \in {"data"} |-> l], "")
                    : l \in {List(<<>>), List(<<Dict(<<"msg">>, <<Str("line")>>)>>)} }
           \* lines 238-262: the settings, or a fault listing the interfaces
           [] cmd = "get_settings" ->
                {Raised, Returned(Dict(<<"General">>, <<Dict(<<>>, <<>>)>>), NoAttrs, "")}

\* the instance with the attributes in set assigned
Assign(self, set) ==
    [f \in DOMAIN self |-> IF f \in DOMAIN set THEN set[f] ELSE self[f]]

----------------------------------------------------------------------------
(* API2._api_run after the handler call: normalise, classify, format *)

\* the XML parse left out
NormalizeNoXml(res) ==
    IF res.t \in {"dict", "list"} THEN res
    ELSE LET ret == IF JsonParses(res) THEN JsonLoads(res) ELSE None
         IN  IF ret = None THEN res ELSE ret

\* the JSON parse left out
NormalizeMut(res) ==
    IF res.t \in {"dict", "list"} THEN res
    ELSE LET ret == IF XmlParses(res) THEN XmlParse(res) ELSE None
         IN  IF ret = None THEN res ELSE ret

\* lines 530-550: the first rule that applies; a parse that yields None
\* leaves the raw result
Normalize(res) ==
    IF res.t \in {"dict", "list"} THEN res
    ELSE LET ret == IF JsonParses(res) THEN JsonLoads(res)
                    ELSE IF XmlParses(res) THEN XmlParse(res)
                    ELSE None
         IN  IF ret = None THEN res ELSE ret

\* the classification left as the handler or __init__ set it
ClassifyMut(ret, result_type) ==
    IF Truthy(ret) THEN "success" ELSE result_type

\* lines 552-557
Classify(ret, result_type) ==
    IF Truthy(ret) \/ result_type = "success" THEN "success" ELSE "error"

\* _api_responds, lines 444-450
_api_responds(result_type, data, msg) ==
    Dict(<<"response">>,
         << Dict(<<"result", "message", "data">>,
                 << Str(result_type), msg,
                    IF data = None THEN Dict(<<>>, <<>>) ELSE data >>) >>)

\* d[key] of a mapping value
Get(d, key) == d.vs[CHOOSE i \in DOMAIN d.ks : d.ks[i] = key]

\* d[key] = v on a mapping value
Put(d, key, v) ==
    IF \E i \in DOMAIN d.ks : d.ks[i] = key
    THEN Dict(d.ks, [i \in DOMAIN d.ks |-> IF d.ks[i] = key THEN v ELSE d.vs[i]])
    ELSE Dict(Append(d.ks, key), Append(d.vs, v))

\* what the except clauses put into out: the fault, and result 'error'
Faked(out, fault) == Put(Put(out, "message", Str(fault)), "result", Str("error"))

JsonFault == "Traceback (most recent call last): ... UnicodeDecodeError"
XmlFault == "UnicodeDecodeError: 'ascii' codec can't decode byte"
XmlRootFault == "Document must have exactly one root."

\* lines 494-500
MinimalXml(fault) ==
    "<?xml version=\"1.0\" encoding=\"utf-8\"?>\n<response>\n<message>" \o fault
    \o "</message>\n<data></data>\n<result>error</result>\n</response>\n"

NoContentType == ""

\* the callback ignored
OutAsJsonMut(self, out) ==
    IF JsonSerializable(out)
    THEN [body |-> Str(IF Truthy(self._api_debug) THEN JsonDumpsPretty(out)
                       ELSE JsonDumps(out)),
          content_type |-> "application/json;charset=UTF-8"]
    ELSE [body |-> Faked(out, JsonFault),
          content_type |-> "application/json;charset=UTF-8"]

\* lines 465-480
OutAsJson(self, out) ==
    IF JsonSerializable(out)
    THEN LET text == IF Truthy(self._api_debug) THEN JsonDumpsPretty(out)
                     ELSE JsonDumps(out)
         IN  IF self._api_callback # None
             THEN [body |-> Str(self._api_callback.s \o "(" \o text \o ");"),
                   content_type |-> "application/javascript"]
             ELSE [body |-> Str(text),
                   content_type |-> "application/json;charset=UTF-8"]
    ELSE [body |-> Faked(out, JsonFault),
          content_type |-> "application/json;charset=UTF-8"]

\* no last resort: a retry that fails is handed on as it is
OutAsXmlMut(self, out) ==
    [content_type |-> "application/xml",
     body |-> IF XmlUnparseOk(out) THEN Str(XmlUnparse(out))
              ELSE Faked(out, XmlFault)]

\* lines 481-500
OutAsXml(self, out) ==
    [content_type |-> "application/xml",
     body |-> IF XmlUnparseOk(out) THEN Str(XmlUnparse(out))
              ELSE LET again == Faked(out, XmlFault)
                   IN  IF XmlUnparseOk(again) THEN Str(XmlUnparse(again))
                       ELSE Str(MinimalXml(IF Len(again.ks) # 1 THEN XmlRootFault
                                           ELSE XmlFault))]

\* _api_out_as, lines 452-502: the value returned and the content type set
_api_out_as(self, out) ==
    IF self._api_cmd = Str("docs_md")
    THEN [body |-> Get(Get(out, "response"), "data"), content_type |-> NoContentType]
    ELSE IF self._api_cmd = Str("download_log")
    THEN [body |-> None, content_type |-> NoContentType]
    ELSE IF self._api_cmd = Str("pms_image_proxy")
    THEN [body |-> Get(Get(out, "response"), "data"), content_type |-> "image/jpeg"]
    ELSE IF self._api_out_type = Str("json") THEN OutAsJson(self, out)
    ELSE IF self._api_out_type = Str("xml") THEN OutAsXml(self, out)
    ELSE [body |-> out, content_type |-> NoContentType]

----------------------------------------------------------------------------
(* The configurations and requests of the model *)

KeyA == "0123456789abcdef0123456789abcdef"
KeyShort == "abc123"
\* the i-th value hashlib.sha224(...).hexdigest()[0:32] can take
GenKey(i) == Repeat(Digit(i), ApiKeyLen - 1) \o "f"
GenKeys == {GenKey(i) : i \in 1..NumGenKeys}

Configs ==
    { [API_ENABLED |-> e, API_KEY |-> k, HTTP_USERNAME |-> h[1], HTTP_PASSWORD |-> h[2]]
        : e \in BOOLEAN, k \in {"", KeyA, KeyShort},
          h \in {<<"", "">>, <<"admin", "secret">>} }

\* a parameter is absent, <<>>, or present with a value, <<v>>
Absent == <<>>
Given(s) == <<Str(s)>>

BagKeys == <<"apikey", "cmd", "callback", "debug", "profileme", "out_type",
             "username", "password">>

\* the bag holding the parameters of c that are present
MakeBag(c) ==
    LET at(k) == CHOOSE i \in DOMAIN BagKeys : BagKeys[i] = k
    IN  [k \in {BagKeys[i] : i \in {j \in DOMAIN BagKeys : c[j] # Absent}} |-> c[at(k)][1]]

ApikeyChoices == {Absent, Given(""), Given(KeyA), Given(KeyShort), Given(GenKey(1))}
CmdChoices ==
    {Absent} \cup
    {Given(c) : c \in {"get_apikey", "docs", "docs_md", "restart", "update",
                       "backup_db", "foobar", "download_log"}}
CallbackChoices == {Absent, Given("pong")}
DebugChoices == {Absent, Given("1")}
ProfilemeChoices == {Absent, Given("1")}
OutTypeChoices == {Absent, Given("json"), Given("xml"), Given("csv")}
CredentialChoices ==
    { <<Absent, Absent>>, <<Given("admin"), Given("secret")>>,
      <<Given("eve"), Given("secret")>>, <<Given("admin"), Given("guess")>> }

\* every key, command and output option, without further parameters
CoreBags ==
    { MakeBag(<<ak, cm, cb, db, Absent, ot, Absent, Absent>>)
        : ak \in ApikeyChoices, cm \in CmdChoices, cb \in CallbackChoices,
          db \in DebugChoices, ot \in OutTypeChoices }

\* requests that carry profileme, username and password
ParamBags ==
    { MakeBag(<<ak, cm, Absent, db, pm, Absent, cr[1], cr[2]>>)
        : ak \in {Absent, Given(KeyA)},
          cm \in {Given("get_apikey"), Given("docs"), Given("restart")},
          db \in DebugChoices, pm \in ProfilemeChoices, cr \in CredentialChoices }

Bags == CoreBags \cup ParamBags

\* the callers of get_apikey, and a keyed request alongside them
ConcurrentBags ==
    { MakeBag(<<Absent, Given("get_apikey"), Absent, Absent, Absent, Absent, cr[1], cr[2]>>)
        : cr \in CredentialChoices }
    \cup { MakeBag(<<Given(KeyA), Given("restart"), Absent, Absent, Absent, Absent,
                     Absent, Absent>>) }

NoResponse == [returned |-> FALSE, raised |-> FALSE]

----------------------------------------------------------------------------
(* The state machine *)

Init ==
    /\ CONFIG \in Configs
    \* plexpy/__init__.py is not part of the sources at hand: the module
    \* attribute HTTP_USERNAME that line 424 reads either does not exist or
    \* holds the configured user name
    /\ plexpy \in { [SIGNAL |-> None, HTTP_USERNAME |-> u]
                      : u \in {Unset} \cup {Str(n) : n \in {CONFIG.HTTP_USERNAME} \ {""}} }
    /\ written = <<>>
    /\ pc = [t \in Threads |-> "idle"]
    /\ kwargs = [t \in Threads |-> NoAttrs]
    /\ api = [t \in Threads |-> NewInstance]
    /\ result = [t \in Threads |-> Dict(<<>>, <<>>)]
    /\ called = [t \in Threads |-> None]
    /\ apikey = [t \in Threads |-> ""]
    /\ response = [t \in Threads |-> NoResponse]

\* _api_run, lines 504-510: a new instance serves the request; result = {};
\* _api_validate
ApiValidate(t, bag) ==
    /\ kwargs' = [kwargs EXCEPT ![t] = bag]
    /\ api' = [api EXCEPT ![t] = Validated(NewInstance, bag, CONFIG)]
    /\ result' = [result EXCEPT ![t] = Dict(<<>>, <<>>)]
    /\ called' = [called EXCEPT ![t] = None]
    /\ apikey' = [apikey EXCEPT ![t] = ""]
    /\ response' = [response EXCEPT ![t] = NoResponse]
    /\ pc' = [pc EXCEPT ![t] = "validated"]
    /\ UNCHANGED <<CONFIG, plexpy, written>>

\* line 512
WillCall(self) == Truthy(self._api_cmd) /\ self._api_authenticated

\* a fault swallowed in debug mode too
FaultMut(t) ==
    /\ pc' = [pc EXCEPT ![t] = "called"]
    /\ UNCHANGED response

\* lines 522-528: a fault of the call leaves _api_run in debug mode and is
\* swallowed otherwise, result staying as it was
Fault(t) ==
    IF Truthy(api[t]._api_debug)
    THEN /\ pc' = [pc EXCEPT ![t] = "raised"]
         /\ response' = [response EXCEPT ![t] = [returned |-> FALSE, raised |-> TRUE]]
    ELSE /\ pc' = [pc EXCEPT ![t] = "called"]
         /\ UNCHANGED response

\* the record of one handler call: call(**kw), and whether it raised
Invocation(cmd, kw, raised) == [t |-> "call", cmd |-> cmd, kw |-> kw, raised |-> raised]

\* line 512 false: no handler is called
SkipCall(t) ==
    /\ pc[t] = "validated"
    /\ ~WillCall(api[t])
    /\ pc' = [pc EXCEPT ![t] = "called"]
    /\ UNCHANGED <<CONFIG, plexpy, written, kwargs, api, result, called, apikey, response>>

\* lines 513-528 for every handler but get_apikey
Call(t) ==
    /\ pc[t] = "validated"
    /\ WillCall(api[t])
    /\ api[t]._api_cmd.s # "get_apikey"
    /\ \E o \in HandlerOutcomes(api[t]._api_cmd.s, api[t]._api_kwargs.bag) :
         /\ called' = [called EXCEPT ![t] =
                         Invocation(api[t]._api_cmd.s, api[t]._api_kwargs.bag, o.raised)]
         /\ IF o.raised
            THEN /\ Fault(t)
                 /\ UNCHANGED <<api, result, plexpy>>
            ELSE /\ api' = [api EXCEPT ![t] = Assign(@, o.set)]
                 /\ result' = [result EXCEPT ![t] = o.ret]
                 /\ plexpy' = IF o.signal = "" THEN plexpy
                              ELSE [plexpy EXCEPT !.SIGNAL = Str(o.signal)]
                 /\ pc' = [pc EXCEPT ![t] = "called"]
                 /\ UNCHANGED response
    /\ UNCHANGED <<CONFIG, written, kwargs, apikey>>

\* lines 423-424: HTTP authentication is configured
AuthEnabled(cfg) == cfg.HTTP_USERNAME # "" /\ cfg.HTTP_PASSWORD # ""

\* the password not compared
CredentialsOkMut(username, password, cfg, module) ==
    username = module.HTTP_USERNAME

\* line 424: the credentials a caller must supply when it is
CredentialsOk(username, password, cfg, module) ==
    username = module.HTTP_USERNAME /\ password = Str(cfg.HTTP_PASSWORD)

\* a key generated and stored on every call
MustStoreMut(cfg) == TRUE

\* lines 425 and 434: a key is generated and stored only when none is
MustStore(cfg) == cfg.API_KEY = ""

\* get_apikey, lines 422-428 and 432-438: draw the candidate key, then the
\* checks, which only read the configuration
GetApikeyCheck(t) ==
    /\ pc[t] = "validated"
    /\ WillCall(api[t])
    /\ api[t]._api_cmd.s = "get_apikey"
    /\ LET kw == api[t]._api_kwargs.bag
           username == PopValue(kw, "username", Str(""))
           password == PopValue(kw, "password", Str(""))
           \* TypeError of the call, AttributeError of plexpy.HTTP_USERNAME
           fault == \/ ~AcceptsKwargs("get_apikey", kw)
                    \/ AuthEnabled(CONFIG) /\ plexpy.HTTP_USERNAME = Unset
       IN
       /\ called' = [called EXCEPT ![t] = Invocation("get_apikey", kw, fault)]
       /\ IF fault
          THEN /\ Fault(t)
               /\ UNCHANGED <<api, apikey>>
          ELSE /\ UNCHANGED response
               /\ \E k \in GenKeys :
                    /\ apikey' = [apikey EXCEPT ![t] = k]
                    /\ IF AuthEnabled(CONFIG)
                          /\ ~CredentialsOk(username, password, CONFIG, plexpy)
                       THEN /\ api' = [api EXCEPT ![t].msg = Str(AuthMsg)]
                            /\ pc' = [pc EXCEPT ![t] = "get_apikey_return"]
                       ELSE IF MustStore(CONFIG)
                       THEN /\ api' = [api EXCEPT ![t].data = Str(k)]
                            /\ pc' = [pc EXCEPT ![t] = "get_apikey_assign"]
                       ELSE /\ api' = [api EXCEPT ![t].data = Str(CONFIG.API_KEY)]
                            /\ pc' = [pc EXCEPT ![t] = "get_apikey_return"]
    /\ UNCHANGED <<CONFIG, plexpy, written, kwargs, result>>

\* lines 429 and 439: plexpy.CONFIG.API_KEY = apikey
GetApikeyAssign(t) ==
    /\ pc[t] = "get_apikey_assign"
    /\ CONFIG' = [CONFIG EXCEPT !.API_KEY = apikey[t]]
    /\ pc' = [pc EXCEPT ![t] = "get_apikey_write"]
    /\ UNCHANGED <<plexpy, written, kwargs, api, result, called, apikey, response>>

\* lines 430 and 440: plexpy.CONFIG.write() persists the configuration as
\* it is at that moment
GetApikeyWrite(t) ==
    /\ pc[t] = "get_apikey_write"
    /\ written' = Append(written, CONFIG.API_KEY)
    /\ pc' = [pc EXCEPT ![t] = "get_apikey_return"]
    /\ UNCHANGED <<CONFIG, plexpy, kwargs, api, result, called, apikey, response>>

\* line 442: return self.data, an AttributeError if nothing assigned it
GetApikeyReturn(t) ==
    /\ pc[t] = "get_apikey_return"
    /\ called' = [called EXCEPT ![t].raised = (api[t].data = Unset)]
    /\ IF api[t].data = Unset
       THEN /\ Fault(t)
            /\ UNCHANGED result
       ELSE /\ result' = [result EXCEPT ![t] = api[t].data]
            /\ pc' = [pc EXCEPT ![t] = "called"]
            /\ UNCHANGED response
    /\ UNCHANGED <<CONFIG, plexpy, written, kwargs, api, apikey>>

\* lines 530-559: normalise the result, settle the classification, build the
\* envelope and format it
Finish(t) ==
    /\ pc[t] = "called"
    /\ LET ret == Normalize(result[t])
           rt == Classify(ret, api[t]._api_result_type)
           out == _api_responds(rt, ret, api[t]._api_msg)
           sent == _api_out_as(api[t], out)
       IN  /\ api' = [api EXCEPT ![t]._api_result_type = rt]
           /\ response' = [response EXCEPT ![t] =
                             [returned |-> TRUE, raised |-> FALSE,
                              envelope |-> Get(out, "response"),
                              body |-> sent.body,
                              content_type |-> sent.content_type]]
    /\ pc' = [pc EXCEPT ![t] = "done"]
    /\ UNCHANGED <<CONFIG, plexpy, written, kwargs, result, called, apikey>>

\* _api_run has returned or raised: the instance is dropped and the thread
\* is free for the next request
Return(t) ==
    /\ pc[t] \in {"done", "raised"}
    /\ pc' = [pc EXCEPT ![t] = "idle"]
    /\ kwargs' = [kwargs EXCEPT ![t] = NoAttrs]
    /\ api' = [api EXCEPT ![t] = NewInstance]
    /\ result' = [result EXCEPT ![t] = Dict(<<>>, <<>>)]
    /\ called' = [called EXCEPT ![t] = None]
    /\ apikey' = [apikey EXCEPT ![t] = ""]
    /\ response' = [response EXCEPT ![t] = NoResponse]
    /\ UNCHANGED <<CONFIG, plexpy, written>>

\* the steps of _api_run that follow _api_validate
Step(t) ==
    \/ SkipCall(t)
    \/ Call(t)
    \/ GetApikeyCheck(t)
    \/ GetApikeyAssign(t)
    \/ GetApikeyWrite(t)
    \/ GetApikeyReturn(t)
    \/ Finish(t)
    \/ Return(t)

\* the thread that serves the requests of Spec
Main == CHOOSE t \in Threads : \A u \in Threads : t <= u

\* requests served one after the other
Next ==
    \/ pc[Main] = "idle" /\ \E bag \in Bags : ApiValidate(Main, bag)
    \/ Step(Main)

Spec == Init /\ [][Next]_vars

\* get_apikey requests served by concurrent threads
NextConcurrent ==
    \E t \in Threads :
        \/ pc[t] = "idle" /\ \E bag \in ConcurrentBags : ApiValidate(t, bag)
        \/ Step(t)

SpecConcurrent == Init /\ [][NextConcurrent]_vars

----------------------------------------------------------------------------
(* The claims *)

\* the string value of parameter key of bag, "" when absent
Param(bag, key) == IF key \in DOMAIN bag THEN bag[key].s ELSE ""
Has(bag, key) == key \in DOMAIN bag

AfterValidate == pc[Main] = "validated"

\* C1: once _api_validate has run, the request is authenticated exactly if
\* the supplied apikey is the configured key, the API is enabled and cmd is
\* registered, or cmd is get_apikey, docs or docs_md and the API is enabled;
\* with the API disabled nothing is authenticated.
C1_AuthenticatedIff ==
    AfterValidate =>
        LET bag == kwargs[Main]
            byKey == /\ Has(bag, "apikey") /\ bag["apikey"].s = CONFIG.API_KEY
                     /\ CONFIG.API_ENABLED
                     /\ Has(bag, "cmd") /\ bag["cmd"].s \in SeqToSet(_api_valid_methods)
            public == /\ Has(bag, "cmd")
                      /\ bag["cmd"].s \in {"get_apikey", "docs", "docs_md"}
                      /\ CONFIG.API_ENABLED
        IN  /\ api[Main]._api_authenticated <=> (byKey \/ public)
            /\ ~CONFIG.API_ENABLED => ~api[Main]._api_authenticated

\* a public command let in although the key supplied is not the configured one
C1_Witness ==
    /\ AfterValidate
    /\ api[Main]._api_authenticated
    /\ Has(kwargs[Main], "apikey")
    /\ kwargs[Main]["apikey"].s # CONFIG.API_KEY
    /\ kwargs[Main]["cmd"].s = "docs"

\* C2 as stated: a bag without apikey is always rejected with 'Parameter
\* apikey is required' and the cleaned parameters stay unpopulated.
C2_AsStated ==
    (AfterValidate /\ ~Has(kwargs[Main], "apikey")) =>
        /\ api[Main]._api_msg = Str("Parameter apikey is required")
        /\ api[Main]._api_kwargs = None

\* C2: a bag without apikey is rejected with exactly 'Parameter apikey is
\* required', the cleaned parameters staying unpopulated, when the API is
\* enabled, the configured key has 32 characters and cmd is none of
\* get_apikey, docs, docs_md.
C2_MissingApikey ==
    ( /\ AfterValidate
      /\ ~Has(kwargs[Main], "apikey")
      /\ CONFIG.API_ENABLED
      /\ Len(CONFIG.API_KEY) = 32
      /\ Param(kwargs[Main], "cmd") \notin {"get_apikey", "docs", "docs_md"} ) =>
        /\ ~api[Main]._api_authenticated
        /\ api[Main]._api_msg = Str("Parameter apikey is required")
        /\ api[Main]._api_kwargs = None

C2_Witness ==
    /\ AfterValidate
    /\ ~Has(kwargs[Main], "apikey")
    /\ Param(kwargs[Main], "cmd") = "restart"
    /\ Has(kwargs[Main], "callback")
    /\ api[Main]._api_msg = Str("Parameter apikey is required")

\* C3: the named arguments of every handler call are the raw bag without
\* the six reserved keys: none of them is passed, every other key is passed
\* with its value.
C3_ReservedKeysStripped ==
    called[Main] # None =>
        LET kw == called[Main].kw
            bag == kwargs[Main]
            reserved == {"apikey", "cmd", "callback", "debug", "profileme", "out_type"}
        IN  /\ api[Main]._api_authenticated
            /\ DOMAIN kw \cap reserved = {}
            /\ DOMAIN kw = DOMAIN bag \ reserved
            /\ \A k \in DOMAIN kw : kw[k] = bag[k]

\* a call of a request that carried reserved and other parameters
C3_Witness ==
    /\ called[Main] # None
    /\ {"apikey", "cmd", "debug", "profileme"} \subseteq DOMAIN kwargs[Main]
    /\ DOMAIN called[Main].kw = {"username", "password"}

\* the request has been answered: _api_run returned
Answered(t) == pc[t] = "done" /\ response[t].returned
Envelope(t) == response[t].envelope
Data(t) == Get(Envelope(t), "data")
EmptyData == Dict(<<>>, <<>>)

\* the handler cmd was called with the named arguments keys and returned
Ran(t, cmd, keys) ==
    /\ called[t] # None
    /\ called[t].cmd = cmd
    /\ DOMAIN called[t].kw = keys
    /\ ~called[t].raised

\* C4: an authenticated restart or update request without arguments is
\* answered with result 'success' and data {}.
C4_RestartSucceeds ==
    \A cmd \in {"restart", "update"} :
        (Answered(Main) /\ Ran(Main, cmd, {})) =>
            /\ Get(Envelope(Main), "result") = Str("success")
            /\ Data(Main) = EmptyData

\* C5: when get_apikey runs in several threads, at most one key is ever
\* written to the configuration, and every caller is answered with the key
\* that is stored.
C5_OneKeyWritten ==
    /\ Cardinality(SeqToSet(written)) <= 1
    /\ \A t \in Threads :
         (Answered(t) /\ Ran(t, "get_apikey", {}) /\ ~AuthEnabled(CONFIG)) =>
             Data(t) = Str(CONFIG.API_KEY)

\* the reason a rejected request is rejected for is 'Unknown command'
UnknownCommand(t) ==
    /\ api[t]._api_msg # None
    /\ Len(api[t]._api_msg.s) >= 16
    /\ SubSeq(api[t]._api_msg.s, 1, 16) = "Unknown command:"

\* C6 as stated: a rejected request is answered with result 'failed', or
\* 'error' if the command is unknown, and with the rejection reason.
C6_AsStated ==
    (Answered(Main) /\ ~api[Main]._api_authenticated) =>
        /\ Get(Envelope(Main), "result") =
              IF UnknownCommand(Main) THEN Str("error") ELSE Str("failed")
        /\ Get(Envelope(Main), "message") # None

\* C6: every request rejected by validation is answered with an envelope
\* whose result is 'error', whatever the reason, and whose message is the
\* non-empty rejection reason; its data is empty.
C6_RejectedIsError ==
    (Answered(Main) /\ ~api[Main]._api_authenticated) =>
        /\ Get(Envelope(Main), "result") = Str("error")
        /\ Get(Envelope(Main), "message") # None
        /\ Get(Envelope(Main), "message").s # ""
        /\ Get(Envelope(Main), "message") = api[Main]._api_msg
        /\ Data(Main) = EmptyData
        /\ called[Main] = None

\* a request rejected for a wrong key, not for an unknown command
C6_Witness ==
    /\ Answered(Main)
    /\ Get(Envelope(Main), "message") = Str("Invalid apikey")
    /\ Get(Envelope(Main), "result") = Str("error")

\* does text start with the callback name and '(' and end with ');'
Wrapped(text, callback) ==
    LET n == Len(callback) + 1
    IN  /\ Len(text) >= n + 2
        /\ SubSeq(text, 1, n) = callback \o "("
        /\ SubSeq(text, Len(text) - 1, Len(text)) = ");"

\* the commands whose output skips the formats
Unformatted == {"docs_md", "download_log", "pms_image_proxy"}

\* C7 as stated: with a callback the body is '<callback>(<json>);' and the
\* content type that of a script, whatever the out_type.
C7_AsStated ==
    (Answered(Main) /\ Has(kwargs[Main], "callback")
        /\ Param(kwargs[Main], "out_type") \in {"", "json", "xml"}
        /\ Param(kwargs[Main], "cmd") \notin Unformatted) =>
        /\ response[Main].content_type = "application/javascript"
        /\ response[Main].body.t = "str"
        /\ Wrapped(response[Main].body.s, kwargs[Main]["callback"].s)

\* C7: with a callback and out_type json (given or by default), for a
\* command other than docs_md, download_log and pms_image_proxy and an
\* envelope json can encode, the body is '<callback>(<json>);' with the
\* application/javascript content type; with out_type xml the callback is
\* not used: the body is the XML document, of type application/xml.
C7_JsonpForJson ==
    (Answered(Main) /\ Has(kwargs[Main], "callback")
        /\ Param(kwargs[Main], "cmd") \notin Unformatted) =>
        LET cb == kwargs[Main]["callback"].s
            out == Dict(<<"response">>, <<Envelope(Main)>>)
            body == response[Main].body
        IN  /\ (Param(kwargs[Main], "out_type") \in {"", "json"} /\ JsonSerializable(out)) =>
                 /\ response[Main].content_type = "application/javascript"
                 /\ body.t = "str"
                 /\ Wrapped(body.s, cb)
                 /\ SubSeq(body.s, Len(cb) + 2, Len(body.s) - 2) =
                        JsonEncode(out, Has(kwargs[Main], "debug"), 0)
            /\ Param(kwargs[Main], "out_type") = "xml" =>
                 /\ response[Main].content_type = "application/xml"
                 /\ body.t = "str"
                 /\ ~Wrapped(body.s, cb)
                 /\ SubSeq(body.s, 1, 5) = "<?xml"

\* a key wrapped for the callback
C7_Witness ==
    /\ Answered(Main)
    /\ Ran(Main, "get_apikey", {})
    /\ Has(kwargs[Main], "callback")
    /\ response[Main].body =
         Str("pong({\"response\": {\"result\": \"success\", \"message\": null, \"data\": \""
             \o KeyA \o "\"}});")

\* the handler call of the request raised
Faulted(t) == called[t] # None /\ called[t].raised
InDebug(t) == Truthy(api[t]._api_debug)

\* C8 as stated: a fault of the handler outside debug mode is answered with
\* result 'error', no data and a non-empty message; in debug mode it leaves
\* _api_run.
C8_AsStated ==
    /\ (Faulted(Main) /\ ~InDebug(Main)) => pc[Main] # "raised"
    /\ (Answered(Main) /\ Faulted(Main)) =>
          /\ Get(Envelope(Main), "result") = Str("error")
          /\ Data(Main) = EmptyData
          /\ Get(Envelope(Main), "message") # None
          /\ Get(Envelope(Main), "message").s # ""
    /\ (Faulted(Main) /\ InDebug(Main)) => pc[Main] = "raised"

\* C8: outside debug mode a fault of the handler does not leave _api_run:
\* the request is answered with result 'error', data {} and no message
\* (null); in debug mode the fault leaves _api_run and nothing is answered.
C8_FaultContained ==
    /\ (Faulted(Main) /\ ~InDebug(Main)) =>
          /\ pc[Main] \in {"called", "done"}
          /\ ~response[Main].raised
          /\ result[Main] = EmptyData
    /\ (Answered(Main) /\ Faulted(Main)) =>
          /\ ~InDebug(Main)
          /\ Get(Envelope(Main), "result") = Str("error")
          /\ Data(Main) = EmptyData
          /\ Get(Envelope(Main), "message") = None
    /\ (Faulted(Main) /\ InDebug(Main)) =>
          /\ pc[Main] = "raised"
          /\ response[Main].raised
          /\ ~response[Main].returned

\* a fault of backup_db answered as an error
C8_Witness ==
    /\ Answered(Main)
    /\ Faulted(Main)
    /\ called[Main].cmd = "backup_db"
    /\ Get(Envelope(Main), "result") = Str("error")

\* a get_apikey request without credentials on a server without HTTP
\* authentication
PlainGetApikey(t) ==
    /\ ~AuthEnabled(CONFIG)
    /\ called[t] # None
    /\ called[t].cmd = "get_apikey"
    /\ DOMAIN called[t].kw = {}

\* C9: without HTTP credentials given or configured, every get_apikey call
\* is answered with the stored key, and once a key is stored no step of such
\* a call assigns the key or writes the configuration.
C9_StoredKeyReturned ==
    /\ [](\A t \in Threads :
            (Answered(t) /\ PlainGetApikey(t)) =>
                /\ Get(Envelope(t), "result") = Str("success")
                /\ Data(t) = Str(CONFIG.API_KEY)
                /\ CONFIG.API_KEY # "")
    /\ [][ (CONFIG.API_KEY # "" /\ pc[Main] = "validated")
              => (CONFIG' = CONFIG /\ written' = written
                  /\ pc'[Main] \notin {"get_apikey_assign", "get_apikey_write"}) ]_vars
    /\ [][ CONFIG.API_KEY # "" => CONFIG'.API_KEY = CONFIG.API_KEY ]_vars

\* the stored key handed out, nothing written
C9_Witness ==
    /\ Answered(Main)
    /\ PlainGetApikey(Main)
    /\ Data(Main) = Str(KeyA)
    /\ written = <<>>

\* a get_apikey call whose username or password is not the configured one
WrongCredentials(t) ==
    /\ AuthEnabled(CONFIG)
    /\ called[t] # None
    /\ called[t].cmd = "get_apikey"
    /\ \/ Param(kwargs[t], "username") # CONFIG.HTTP_USERNAME
       \/ Param(kwargs[t], "password") # CONFIG.HTTP_PASSWORD

\* C10: with HTTP authentication configured, a get_apikey call whose
\* username or password is missing or wrong is answered without a key, and
\* stores and writes nothing.
C10_KeyNeedsCredentials ==
    /\ [](\A t \in Threads :
            WrongCredentials(t) =>
                /\ pc[t] \notin {"get_apikey_assign", "get_apikey_write"}
                /\ api[t].data = Unset
                /\ result[t] = EmptyData
                /\ Answered(t) => /\ Data(t) = EmptyData
                                  /\ Get(Envelope(t), "result") = Str("error"))
    /\ [][ WrongCredentials(Main)' => (CONFIG' = CONFIG /\ written' = written) ]_vars

\* the right user with a wrong password, compared and turned away
C10_Witness ==
    /\ Answered(Main)
    /\ WrongCredentials(Main)
    /\ Param(kwargs[Main], "username") = CONFIG.HTTP_USERNAME
    /\ plexpy.HTTP_USERNAME # Unset
    /\ api[Main].msg = Str(AuthMsg)
    /\ Data(Main) = EmptyData

----------------------------------------------------------------------------
(* Claims C11 to C20 *)

OutType(t) == Param(kwargs[t], "out_type")
Formatted(t) == Param(kwargs[t], "cmd") \notin Unformatted

\* the text starts with the prefix
StartsWith(text, prefix) ==
    Len(text) >= Len(prefix) /\ SubSeq(text, 1, Len(prefix)) = prefix

\* the text holds the part somewhere
Contains(text, part) ==
    \E i \in 1..(Len(text) - Len(part) + 1) :
        SubSeq(text, i, i + Len(part) - 1) = part

\* C11: a request with out_type xml is always answered with an XML text:
\* the serialized envelope when its data converts to text, and otherwise,
\* the retry failing too, the hand-built error document that carries the
\* description of the fault; the formatter never raises.
C11_XmlAlwaysAnswers ==
    ((pc[Main] \in {"done", "raised"}) /\ OutType(Main) = "xml" /\ Formatted(Main)
        /\ ~(Faulted(Main) /\ InDebug(Main))) =>
        /\ Answered(Main)
        /\ ~response[Main].raised
        /\ response[Main].content_type = "application/xml"
        /\ response[Main].body.t = "str"
        /\ StartsWith(response[Main].body.s, XmlHeader)
        /\ IF XmlSerializable(Data(Main))
           THEN response[Main].body.s =
                    XmlHeader \o XmlEmit("response", Envelope(Main), 0)
           ELSE response[Main].body.s = MinimalXml(XmlRootFault)

\* a backup whose bytes are no text, asked for as XML
C11_Witness ==
    /\ Answered(Main)
    /\ OutType(Main) = "xml"
    /\ Ran(Main, "backup_db", {})
    /\ Data(Main) = Bytes("log")
    /\ response[Main].body = Str(MinimalXml(XmlRootFault))

\* C12: when a json request's envelope cannot be serialized, the response
\* is a reduced envelope whose result field is 'error' and whose message
\* field is the description of the fault, and the formatter does not raise.
C12_ReducedEnvelope ==
    (Answered(Main) /\ OutType(Main) \in {"", "json"} /\ Formatted(Main)
        /\ ~JsonSerializable(Envelope(Main))) =>
        /\ ~response[Main].raised
        /\ response[Main].body.t = "dict" =>
              LET sent == Get(response[Main].body, "response")
              IN  /\ Get(sent, "result") = Str("error")
                  /\ Get(sent, "message") = Str(JsonFault)

\* the handler returned this value to _api_run
ReturnedValue(t, v) == called[t] # None /\ ~called[t].raised /\ result[t] = v

\* C13: a handler that returns the JSON text of {"a": 1} is answered with
\* the envelope result 'success', message null, data the mapping {"a": 1},
\* and with out_type json the body is the JSON text of that envelope, the
\* data in it an object and not a string.
C13_JsonTextParsed ==
    (Answered(Main) /\ ReturnedValue(Main, Str("{\"a\": 1}"))) =>
        /\ Envelope(Main) =
              Dict(<<"result", "message", "data">>,
                   <<Str("success"), None, Dict(<<"a">>, <<Num(1)>>)>>)
        /\ (OutType(Main) \in {"", "json"} /\ ~Has(kwargs[Main], "callback")
               /\ ~InDebug(Main)) =>
              /\ response[Main].body.t = "str"
              /\ StartsWith(response[Main].body.s, "{\"response\": {")
              /\ Contains(response[Main].body.s, "\"data\": {\"a\": 1}")
              /\ Contains(response[Main].body.s, "\"result\": \"success\"")
              /\ Contains(response[Main].body.s, "\"message\": null")

\* the backup handing back the JSON text, asked for as JSON
C13_Witness ==
    /\ Answered(Main)
    /\ Ran(Main, "backup_db", {})
    /\ ReturnedValue(Main, Str("{\"a\": 1}"))
    /\ OutType(Main) = "json"
    /\ response[Main].body.t = "str"
    /\ Data(Main) = Dict(<<"a">>, <<Num(1)>>)

\* the seven rejection conditions in their order, for the request of Main
RejectionConditions ==
    LET bag == kwargs[Main]
    IN  << ~CONFIG.API_ENABLED,
           CONFIG.API_KEY = "",
           Len(CONFIG.API_KEY) # 32,
           ~Has(bag, "apikey"),
           Param(bag, "apikey") # CONFIG.API_KEY,
           ~Has(bag, "cmd"),
           Param(bag, "cmd") \notin ValidMethods >>

\* the texts the seven reasons begin with
RejectionTexts ==
    << "API not enabled", "API key not generated", "API key not generated correctly",
       "Parameter apikey is required", "Invalid apikey",
       "Parameter cmd is required. Possible commands are: ", "Unknown command: " >>

\* C14: the message a rejected request is left with is that of the first of
\* the seven conditions that holds, in their order; the messages about cmd
\* list every registered command, and the one about an unknown command
\* names the cmd of the request.
C14_FirstReasonWins ==
    (AfterValidate /\ ~api[Main]._api_authenticated) =>
        /\ \E i \in 1..7 : RejectionConditions[i]
        /\ api[Main]._api_msg # None
        /\ LET first == CHOOSE i \in 1..7 :
                           /\ RejectionConditions[i]
                           /\ \A j \in 1..(i - 1) : ~RejectionConditions[j]
               msg == api[Main]._api_msg.s
           IN  /\ first <= 5 => msg = RejectionTexts[first]
               /\ first >= 6 =>
                     /\ StartsWith(msg, RejectionTexts[first])
                     /\ \A name \in ValidMethods : Contains(msg, name)
               /\ first = 7 =>
                     StartsWith(msg, "Unknown command: " \o Param(kwargs[Main], "cmd")
                                     \o ". Possible commands are: ")

\* an unknown command under a short configured key: both conditions hold,
\* the earlier one is the reason
C14_Witness ==
    /\ AfterValidate
    /\ ~api[Main]._api_authenticated
    /\ CONFIG.API_ENABLED
    /\ CONFIG.API_KEY = KeyShort
    /\ Param(kwargs[Main], "cmd") = "foobar"
    /\ api[Main]._api_msg = Str("API key not generated correctly")

\* the request being served by t was not authenticated
Unauthenticated(t) == pc[t] # "idle" /\ ~api[t]._api_authenticated

\* C15: for a request that was not authenticated no handler is called, so
\* no step of it stores or writes a key or sets the restart or update
\* signal; its raw result stays {} and, the dispatch stage over, its
\* classification is still the initial 'failed'.
C15_NoCallUnauthenticated ==
    /\ [](Unauthenticated(Main) =>
            /\ called[Main] = None
            /\ result[Main] = EmptyData
            /\ pc[Main] \in {"validated", "called", "done"}
            /\ pc[Main] = "called" => api[Main]._api_result_type = "failed"
            /\ api[Main].data = Unset /\ api[Main].result_type = Unset)
    /\ [][ Unauthenticated(Main) =>
              (CONFIG' = CONFIG /\ plexpy' = plexpy /\ written' = written) ]_vars

\* a restart asked for with a wrong key, past the dispatch stage
C15_Witness ==
    /\ pc[Main] = "called"
    /\ ~api[Main]._api_authenticated
    /\ Param(kwargs[Main], "cmd") = "restart"
    /\ Has(kwargs[Main], "apikey")
    /\ CONFIG.API_ENABLED
    /\ called[Main] = None
    /\ plexpy.SIGNAL = None

\* C16: the result of the envelope is 'success' exactly if the normalized
\* data is non-empty or the handler set the classification to success, and
\* 'error' otherwise.
C16_SuccessIff ==
    (Answered(Main) /\ called[Main] # None /\ ~called[Main].raised) =>
        LET success == \/ Truthy(Normalize(result[Main]))
                       \/ api[Main].result_type = Str("success")
        IN  Get(Envelope(Main), "result") =
               IF success THEN Str("success") ELSE Str("error")

\* C17 as stated: the data handed to the formatter is never a string that
\* is JSON text or XML text.
C17_AsStated ==
    (Answered(Main) /\ Data(Main).t = "str") =>
        ~JsonParses(Data(Main)) /\ ~XmlParses(Data(Main))

\* C17: a mapping or sequence is used as it is; any other result is parsed
\* as JSON, and if that fails as XML; a result that is neither, and the JSON
\* text null, whose parse is None, are passed on unchanged; what a parse
\* yields is not parsed again. So the formatter never receives the raw
\* string of a result that is XML text or the JSON text of anything but null.
C17_NormalizerOrder ==
    (Answered(Main) /\ called[Main] # None /\ ~called[Main].raised) =>
        LET raw == result[Main]
        IN  /\ raw.t \in {"dict", "list"} => Data(Main) = raw
            /\ raw = Str("{\"a\": 1}") => Data(Main) = Dict(<<"a">>, <<Num(1)>>)
            /\ raw = Str("<a>1</a>") => Data(Main) = Dict(<<"a">>, <<Str("1")>>)
            /\ raw = Str("null") => Data(Main) = raw
            /\ raw = Str("\"[]\"") => Data(Main) = Str("[]")
            /\ raw \in {Bool(TRUE), Bool(FALSE), Bytes("log")} => Data(Main) = raw
            /\ raw = None => Data(Main) = EmptyData
            /\ (Data(Main).t = "str" /\ Data(Main) = raw) =>
                  /\ ~XmlParses(raw)
                  /\ JsonParses(raw) => JsonLoads(raw) = None
            /\ (Data(Main).t = "str" /\ Data(Main) # raw) =>
                  JsonParses(raw) /\ Data(Main) = JsonLoads(raw)

\* the XML text a backup handed back, parsed into a mapping
C17_Witness ==
    /\ Answered(Main)
    /\ Ran(Main, "backup_db", {})
    /\ result[Main] = Str("<a>1</a>")
    /\ Data(Main) = Dict(<<"a">>, <<Str("1")>>)

\* C18: once _api_validate has returned, the rejection message is None
\* exactly if the request is authenticated, and the cleaned parameters are
\* populated exactly if it is authenticated, with the bag less the six
\* reserved keys; an unauthenticated request has a non-empty message.
C18_MessageIffRejected ==
    AfterValidate =>
        LET self == api[Main]
            bag == kwargs[Main]
            reserved == {"apikey", "cmd", "callback", "debug", "profileme", "out_type"}
        IN  /\ (self._api_msg = None) <=> self._api_authenticated
            /\ (self._api_kwargs # None) <=> self._api_authenticated
            /\ self._api_authenticated =>
                  /\ DOMAIN self._api_kwargs.bag = DOMAIN bag \ reserved
                  /\ \A k \in DOMAIN self._api_kwargs.bag :
                        self._api_kwargs.bag[k] = bag[k]
            /\ ~self._api_authenticated =>
                  /\ self._api_msg # None
                  /\ self._api_msg.t = "str"
                  /\ self._api_msg.s # ""

\* a public command let in with a wrong key: the message 'Invalid apikey'
\* computed first is cleared, the credentials are the cleaned parameters
C18_Witness ==
    /\ AfterValidate
    /\ api[Main]._api_authenticated
    /\ Param(kwargs[Main], "cmd") = "get_apikey"
    /\ Has(kwargs[Main], "apikey")
    /\ Param(kwargs[Main], "apikey") # CONFIG.API_KEY
    /\ Len(CONFIG.API_KEY) = 32
    /\ api[Main]._api_msg = None
    /\ DOMAIN api[Main]._api_kwargs.bag = {"username", "password"}

\* C19: a handler other than get_apikey, docs and docs_md is called only
\* for a request that supplied apikey, and only while the API is enabled and
\* the configured key is present, 32 characters long and the one supplied.
C19_KeyedCallsOnly ==
    (called[Main] # None /\ called[Main].cmd \notin PublicCommands) =>
        /\ Has(kwargs[Main], "apikey")
        /\ CONFIG.API_ENABLED
        /\ CONFIG.API_KEY # ""
        /\ Len(CONFIG.API_KEY) = 32
        /\ Param(kwargs[Main], "apikey") = CONFIG.API_KEY

\* the response, text or mapping, carries the message
Carries(body, msg) ==
    CASE body.t = "str" -> Contains(body.s, msg)
      [] body.t = "dict" ->
            /\ \E i \in DOMAIN body.ks : body.ks[i] = "response"
            /\ Get(body, "response").t = "dict"
            /\ \E i \in DOMAIN Get(body, "response").ks :
                  /\ Get(body, "response").ks[i] = "message"
                  /\ Get(body, "response").vs[i] = Str(msg)
      [] OTHER -> FALSE

\* C20: the response to a request that validation rejected carries the
\* rejection message of that request, whatever its cmd.
C20_RejectionReported ==
    (Answered(Main) /\ ~api[Main]._api_authenticated) =>
        /\ api[Main]._api_msg # None
        /\ Carries(response[Main].body, api[Main]._api_msg.s)

====
